---- MODULE Spec2Model ----
(***************************************************************************)
(* Model of the Deadline Cloud farm creator: the provisioning workflow     *)
(* create_farm_and_fleet and its clean_up (creator.py), driven by webhook   *)
(* requests (listener.py), against the remote services reached through     *)
(* the wrappers of deadline_cloud_util.py.                                  *)
(*                                                                         *)
(* Python's None is the empty tuple; identifiers, names and documents are   *)
(* tuples, dictionaries are records (functions over their keys).           *)
(***************************************************************************)
EXTENDS Naturals, Sequences, FiniteSets, TLC

VARIABLES
    pc,            \* run -> position in create_farm_and_fleet / clean_up
    entry,         \* run -> the function the run was entered through
    args,          \* run -> arguments of create_farm_and_fleet
    loc,           \* run -> local variables of create_farm_and_fleet
    progress,      \* run -> the progress dictionary (resources of clean_up)
    cleaned,       \* run -> clean_up's dictionary of removal results
    calls,         \* run -> log of the wrapper calls the run has issued
    result,        \* run -> what the run returned (or the exception it raised)
    request,       \* run -> the HTTP request the listener received for it
    http_response, \* run -> what farm_creator answered to the request
    argv,          \* run -> the command line creator.py was started with
    faulty,        \* operations the environment may make fail
    farms,         \* remote: farm ids that exist
    queues,        \* remote: queue ids that exist
    fleets,        \* remote: fleets that exist
    associations,  \* remote: queue-fleet associations that exist
    roles,         \* remote (IAM): role name -> role
    role_policies  \* remote (IAM): <<role name, policy name>> inline policies

vars == <<pc, entry, args, loc, progress, cleaned, calls, result, request,
          http_response, argv, faulty, farms, queues, fleets, associations, roles,
          role_policies>>
web == <<request, http_response, argv>>
remote == <<farms, queues, fleets, associations, roles, role_policies>>

-----------------------------------------------------------------------------
(* Values *)

None == <<>>

\* Concurrent webhook requests (one workflow run each).
Runs == {1, 2}

\* The fleet configuration that comes with the program.
FLEET_CONFIGURATION_PATH == <<"configuration/cmf_default.json">>

\* Farm display names: "A B" and "A_B".
NameAB == <<"A", " ", "B">>
NameA_B == <<"A", "_", "B">>

\* The caller's account and the studio id "<region>:<studio>".
Account == <<"111122223333">>
StudioId == <<"us-west-2", "studio-1">>

\* Identifiers the remote service hands out to run r.
FarmIdOf(r) == <<"farm", r>>
QueueIdOf(r) == <<"queue", r>>
FleetIdOf(r) == <<"fleet", r>>
\* A farm of an earlier, finished run.
OldFarmId == <<"farm", 0>>

\* Python's True and False, and the truth value of "if v".
True == <<"True">>
False == <<"False">>
Truthy(v) == v # None /\ v # False

-----------------------------------------------------------------------------
(* Constants of the program *)

queue_retries_total == 3
role_change_retries_total == 3
policy_name == <<"WorkerPermissions">>

-----------------------------------------------------------------------------
(* Pure helpers of create_farm_and_fleet *)

\* name_farm.replace(" ", "_")
Sanitize(name) == [i \in DOMAIN name |-> IF name[i] = " " THEN "_" ELSE name[i]]

\* f"{name_farm_sanitized}FleetRole"
RoleNameFleet(name_farm) == Sanitize(name_farm) \o <<"FleetRole">>

\* f"arn:aws:iam::{account}:role/{role_name_fleet}"
FleetRoleArn(account, role_name) ==
    <<"arn", "aws", "iam", "">> \o account \o <<"role">> \o role_name

\* f"arn:aws:deadline:{region_id}:{account}:farm/{farm_id}"
FarmArn(region_id, account, farm_id) ==
    <<"arn", "aws", "deadline", region_id>> \o account \o <<"farm">> \o farm_id

\* studio_id.split(":")[0]
RegionOf(studio_id) == Head(studio_id)

\* The Condition written into an sts:AssumeRole statement.
AssumeRoleCondition(region_id, account, farm_id) ==
    [StringEquals |-> [SourceAccount |-> account],
     ArnEquals |-> [SourceArn |-> FarmArn(region_id, account, farm_id)]]

NoCondition == [absent |-> TRUE]

\* The action a statement is updated for, another action, and a statement
\* that has no "Action" key (s["Action"] raises KeyError).
AssumeRoleAction == "sts:AssumeRole"
OtherAction == "sts:TagSession"
MissingAction == "<no Action key>"

\* Whether the loop over the statements raises (and is caught).
InjectRaises(statements) ==
    \E i \in DOMAIN statements : statements[i].Action = MissingAction

\* The loop setting the Condition on every statement, whatever its Action.
InjectConditionsAll(statements, region_id, account, farm_id) ==
    [i \in DOMAIN statements |->
        [statements[i] EXCEPT !.Condition = AssumeRoleCondition(region_id, account, farm_id)]]

\* The loop over pd_fleet_role_dict["Statement"].
InjectConditions(statements, region_id, account, farm_id) ==
    [i \in DOMAIN statements |->
        IF statements[i].Action = AssumeRoleAction
        THEN [statements[i] EXCEPT
                 !.Condition = AssumeRoleCondition(region_id, account, farm_id)]
        ELSE statements[i]]

-----------------------------------------------------------------------------
(* The environment: responses of the remote services and of the file system *)

\* The wrapper calls and file reads that can fail.
AllOps == {"get_caller_identity", "create_farm", "create_queue", "get_queue",
           "get_role", "create_role", "put_role_policy", "create_fleet",
           "create_queue_fleet_association", "delete_role_policy",
           "delete_role", "delete_queue", "delete_farm",
           "read_iam_fleet_role", "read_iam_fleet_worker_permissions",
           "read_fleet_configuration"}

\* What a wrapper call can come back with: "ok" is a response with the
\* expected field (and the remote effect); "nofield" a response without it
\* (no effect); "raise" an exception of the client (no effect). A call the
\* remote state cannot serve raises.
Outcomes(op, feasible) ==
    (IF feasible THEN {"ok"} ELSE {"raise"})
        \cup (IF op \in faulty THEN {"nofield", "raise"} ELSE {})

\* The response of the client to a wrapper: the expected field and its value.
Response(out, value) == [has_field |-> out = "ok", value |-> value]

\* What get_json_document can come back with: the document or None.
ReadOutcomes(op) == {"ok"} \cup (IF op \in faulty THEN {"none"} ELSE {})

\* Number of statements a trust-policy template may hold.
MaxStatements == 1

Statement(action) == [Action |-> action, Condition |-> NoCondition]

StatementLists ==
    UNION {[1..n -> {Statement(a) : a \in {AssumeRoleAction, OtherAction, MissingAction}}]
              : n \in 0..MaxStatements}

\* policy/iam_fleet_role.json as json.loads returns it: a dictionary with or
\* without the key "Statement".
GoodTemplate == [has_statement |-> TRUE, Statement |-> <<Statement(AssumeRoleAction)>>]

Templates ==
    IF "read_iam_fleet_role" \in faulty
    THEN {[has_statement |-> TRUE, Statement |-> l] : l \in StatementLists}
            \cup {[has_statement |-> FALSE, Statement |-> <<>>]}
    ELSE {GoodTemplate}

-----------------------------------------------------------------------------
(* deadline_cloud_util: what each wrapper returns for a response *)

create_farm(response) == IF response.has_field THEN response.value ELSE None
\* create_queue handing back an identifier for a response without queueId.
create_queueNoCheck(response) ==
    IF response.has_field THEN response.value ELSE <<"queue", 0>>
create_queue(response) == IF response.has_field THEN response.value ELSE None
\* create_fleet losing the fleetId of the response.
create_fleetDropped(response) == None
create_fleet(response) == IF response.has_field THEN response.value ELSE None
create_role(response) == IF response.has_field THEN response.value ELSE None
\* get_role dropping the role of the response.
get_roleDropped(response) == None
get_role(response) == IF response.has_field THEN response.value ELSE None
\* queue_id is the argument, overwritten by the response's queueId.
get_queue(response, queue_id) == IF response.has_field THEN response.value ELSE queue_id
\* The wrappers that return HTTPStatusCode == 200 (the value of the response).
StatusResult(response) ==
    IF response.has_field THEN (IF response.value = 200 THEN True ELSE False) ELSE None
create_queue_fleet_association(response) == StatusResult(response)
put_role_policy(response) == StatusResult(response)
delete_role_policy(response) == StatusResult(response)
delete_role(response) == StatusResult(response)
delete_queue(response) == StatusResult(response)
\* delete_farm hands the client farm_id=..., where every other wrapper uses
\* the API's own parameter names (farmId=...); what the client answers to
\* that is one of the outcomes of the call.
delete_farm(response) == StatusResult(response)
\* The caller identity itself, when the result holds "UserId".
get_caller_identity(response) == IF response.has_field THEN response.value ELSE None

\* The wrappers by name; argument is the queue_id handed to get_queue.
WrapperOps == AllOps \ {"read_iam_fleet_role", "read_iam_fleet_worker_permissions",
                        "read_fleet_configuration"}
StatusOps == {"create_queue_fleet_association", "put_role_policy",
              "delete_role_policy", "delete_role", "delete_queue", "delete_farm"}
WrapperResult(op, response, argument) ==
    CASE op = "create_farm" -> create_farm(response)
      [] op = "create_queue" -> create_queue(response)
      [] op = "create_fleet" -> create_fleet(response)
      [] op = "create_role" -> create_role(response)
      [] op = "get_role" -> get_role(response)
      [] op = "get_queue" -> get_queue(response, argument)
      [] op = "get_caller_identity" -> get_caller_identity(response)
      [] op = "create_queue_fleet_association" -> create_queue_fleet_association(response)
      [] op = "put_role_policy" -> put_role_policy(response)
      [] op = "delete_role_policy" -> delete_role_policy(response)
      [] op = "delete_role" -> delete_role(response)
      [] op = "delete_queue" -> delete_queue(response)
      [] op = "delete_farm" -> delete_farm(response)

-----------------------------------------------------------------------------
(* State of a run *)

NoResult == [kind |-> "none", value |-> "none"]
\* No request, and no answer yet.
NoRequest == [method |-> "none", url |-> <<>>, form |-> <<>>]
NoResponse == [kind |-> "none", value |-> <<>>]
\* Not started from the command line.
NoArgv == [studio_id |-> None, farm |-> None, queue |-> None, fleet |-> None,
           fleet_configuration_path |-> None]
ErrorResult(msg) == [kind |-> "error", value |-> msg]
Raised(exc) == [kind |-> "raised", value |-> exc]

InitLoc ==
    [role_name_fleet |-> None, account |-> None, fleet_role_arn |-> None,
     farm_id |-> None, queue_id |-> None, queue_retries |-> 0,
     pd_fleet_role_dict |-> None, role |-> None, fleet_id |-> None,
     role_change_retries |-> 0, error_msg |-> "none"]

NoArgs == [name_farm |-> None, name_queue |-> None, name_fleet |-> None,
           studio_id |-> None, fleet_configuration_path |-> None]

\* progress = {}
EmptyDict == <<>>
\* d[k] = v
Put(d, k, v) == (k :> v) @@ d
Has(d, k) == k \in DOMAIN d

Log(r, op, target, out) ==
    calls' = [calls EXCEPT ![r] = Append(@, [op |-> op, target |-> target, out |-> out])]

\* return {"error": error_msg}
ReturnError(r, msg) ==
    /\ pc' = [pc EXCEPT ![r] = "done"]
    /\ result' = [result EXCEPT ![r] = ErrorResult(msg)]

\* The first statement of clean_up.
CleanUpStart == "cu_role_policy"

\* clean_up(progress); return {"error": error_msg}. The action that fails
\* keeps error_msg in loc[r] for the return after clean_up.
Fail(r, msg) ==
    /\ pc' = [pc EXCEPT ![r] = CleanUpStart]
    /\ result' = result

Goto(r, next) ==
    /\ pc' = [pc EXCEPT ![r] = next]
    /\ result' = result

-----------------------------------------------------------------------------
(* create_farm_and_fleet *)

\* Validation that leaves out the fleet name.
ValidationErrorNoFleet(a) ==
    IF a.name_farm = None THEN "No farm name specified"
    ELSE IF a.name_queue = None THEN "No queue name specified"
    ELSE "none"

\* "Validate input": the error message, "none" when the input is valid.
ValidationError(a) ==
    IF a.name_farm = None THEN "No farm name specified"
    ELSE IF a.name_queue = None THEN "No queue name specified"
    ELSE IF a.name_fleet = None THEN "No fleet name specified"
    ELSE "none"

\* Input validation and the derived role name.
Validate(r) ==
    /\ pc[r] = "validate"
    /\ IF ValidationError(args[r]) # "none" THEN
           ReturnError(r, ValidationError(args[r])) /\ loc' = loc
       ELSE
           /\ Goto(r, "get_caller_identity")
           /\ loc' = [loc EXCEPT ![r].role_name_fleet = RoleNameFleet(args[r].name_farm)]
    /\ UNCHANGED <<web, entry, args, progress, cleaned, calls, faulty, remote>>

\* What sts answers: a caller identity with or without the key "Account".
CallerIdentity(with_account) ==
    IF with_account THEN [UserId |-> <<"AIDAEXAMPLE">>, Account |-> Account]
    ELSE [UserId |-> <<"AIDAEXAMPLE">>]

\* A role ARN made up for an identity that has no account.
FleetRoleArnFallback(caller_identity, role_name_fleet) ==
    FleetRoleArn(<<"000000000000">>, role_name_fleet)

\* fleet_role_arn after the try block: None unless the identity holds
\* "Account" ("Account" in None raises TypeError, which is caught).
FleetRoleArnOf(caller_identity, role_name_fleet) ==
    IF caller_identity # None /\ Has(caller_identity, "Account")
    THEN FleetRoleArn(caller_identity.Account, role_name_fleet)
    ELSE None

\* Caller identity: "noaccount" is an identity without the key "Account".
GetCallerIdentity(r) ==
    /\ pc[r] = "get_caller_identity"
    /\ \E out \in Outcomes("get_caller_identity", TRUE)
                     \cup (IF "get_caller_identity" \in faulty THEN {"noaccount"} ELSE {}) :
          LET response == [has_field |-> out \in {"ok", "noaccount"},
                           value |-> CallerIdentity(out = "ok")]
              caller_identity == IF out = "raise" THEN None
                                 ELSE get_caller_identity(response)
              fleet_role_arn == FleetRoleArnOf(caller_identity, loc[r].role_name_fleet)
          IN
          /\ Log(r, "get_caller_identity", None, out)
          /\ IF Truthy(fleet_role_arn)
             THEN /\ loc' = [loc EXCEPT ![r].account =
                                            IF caller_identity # None
                                               /\ Has(caller_identity, "Account")
                                            THEN caller_identity.Account ELSE None,
                                        ![r].fleet_role_arn = fleet_role_arn]
                  /\ Goto(r, "create_farm")
             ELSE /\ loc' = loc
                  /\ ReturnError(r, "Get caller identity failed")
    /\ UNCHANGED <<web, entry, args, progress, cleaned, faulty, remote>>

\* The farm left out of the progress record.
RecordFarmSkipped(p, farm_id) == p

\* progress["farm_id"] = farm_id, whatever create_farm returned.
RecordFarm(p, farm_id) == Put(p, "farm_id", farm_id)

CreateFarm(r) ==
    /\ pc[r] = "create_farm"
    /\ \E out \in Outcomes("create_farm", TRUE) :
          LET farm_id == IF out = "raise" THEN None
                         ELSE create_farm(Response(out, FarmIdOf(r))) IN
          /\ Log(r, "create_farm", args[r].name_farm, out)
          /\ farms' = IF out = "ok" THEN farms \cup {farm_id} ELSE farms
          /\ IF out = "raise"
             THEN /\ ReturnError(r, "traceback")
                  /\ UNCHANGED <<loc, progress>>
             ELSE /\ progress' = [progress EXCEPT ![r] = RecordFarm(@, farm_id)]
                  /\ loc' = [loc EXCEPT ![r].farm_id = farm_id]
                  /\ IF Truthy(farm_id)
                     THEN Goto(r, "create_queue")
                     ELSE ReturnError(r, "Farm creation failed")
    /\ UNCHANGED <<web, entry, args, cleaned, faulty, queues, fleets, associations,
                   roles, role_policies>>

CreateQueue(r) ==
    /\ pc[r] = "create_queue"
    /\ \E out \in Outcomes("create_queue", loc[r].farm_id \in farms) :
          LET queue_id == IF out = "raise" THEN None
                          ELSE create_queue(Response(out, QueueIdOf(r))) IN
          /\ Log(r, "create_queue", loc[r].farm_id, out)
          /\ queues' = IF out = "ok" THEN queues \cup {queue_id} ELSE queues
          /\ loc' = [loc EXCEPT ![r].queue_id = queue_id,
                                ![r].error_msg = IF Truthy(queue_id) THEN @
                                                 ELSE "Queue creation failed"]
          /\ IF Truthy(queue_id)
             THEN Goto(r, "get_queue")
             ELSE Fail(r, "Queue creation failed")
    /\ UNCHANGED <<web, entry, args, progress, cleaned, faulty, farms, fleets,
                   associations, roles, role_policies>>

\* The test after the polling loop, "if not progress["queue_id"]":
\* "raise" (KeyError) when the key is not there.
QueueCheck(p) ==
    IF ~Has(p, "queue_id") THEN "raise"
    ELSE IF ~Truthy(p["queue_id"]) THEN "fail"
    ELSE "pass"

\* A retry counter that is never advanced.
RetriesStuck(value, retries) == retries

\* The counter of a retry loop after one turn: break on a truthy value,
\* retries += 1 otherwise.
RetriesAfter(value, retries) == IF Truthy(value) THEN retries ELSE retries + 1

\* One turn of the polling loop, and the test after the loop when it ends.
GetQueue(r) ==
    /\ pc[r] = "get_queue"
    /\ loc[r].queue_retries < queue_retries_total
    /\ \E out \in Outcomes("get_queue", loc[r].queue_id \in queues) :
          LET queue_result == IF out = "raise" THEN None
                              ELSE get_queue(Response(out, loc[r].queue_id),
                                             loc[r].queue_id)
              p == IF Truthy(queue_result)
                   THEN Put(progress[r], "queue_id", queue_result)
                   ELSE progress[r]
              retries == RetriesAfter(queue_result, loc[r].queue_retries)
              ended == Truthy(queue_result) \/ ~(retries < queue_retries_total)
          IN
          /\ Log(r, "get_queue", loc[r].queue_id, out)
          /\ progress' = [progress EXCEPT ![r] = p]
          /\ IF ~ended THEN
                 /\ loc' = [loc EXCEPT ![r].queue_retries = retries]
                 /\ Goto(r, "get_queue")
             ELSE IF QueueCheck(p) = "raise" THEN
                 /\ loc' = [loc EXCEPT ![r].queue_retries = retries]
                 /\ pc' = [pc EXCEPT ![r] = "done"]
                 /\ result' = [result EXCEPT ![r] = Raised("KeyError")]
             ELSE IF QueueCheck(p) = "fail" THEN
                 /\ loc' = [loc EXCEPT ![r].queue_retries = retries,
                                       ![r].error_msg = "Couldn't get created queue"]
                 /\ Fail(r, "Couldn't get created queue")
             ELSE
                 /\ loc' = [loc EXCEPT ![r].queue_retries = retries]
                 /\ Goto(r, "load_fleet_role")
    /\ UNCHANGED <<web, entry, args, cleaned, faulty, remote>>

\* The trust-policy template as json.loads returns it; a document that
\* cannot be read or is empty ends the run with clean_up.
LoadFleetRole(r) ==
    /\ pc[r] = "load_fleet_role"
    /\ \E rd \in ReadOutcomes("read_iam_fleet_role"), pd_fleet_role_dict \in Templates :
          IF rd = "none" THEN
              /\ loc' = [loc EXCEPT ![r].error_msg = "Couldn't get fleet role policy document"]
              /\ Fail(r, "Couldn't get fleet role policy document")
          ELSE
              /\ loc' = [loc EXCEPT ![r].pd_fleet_role_dict = pd_fleet_role_dict]
              /\ Goto(r, "update_fleet_role")
    /\ UNCHANGED <<web, entry, args, progress, cleaned, calls, faulty, remote>>

\* "Update role policy document with AssumeRole conditions".
\* studio_id.split(":") raises AttributeError when studio_id is None.
UpdateFleetRole(r) ==
    /\ pc[r] = "update_fleet_role"
    /\ LET pd_fleet_role_dict == loc[r].pd_fleet_role_dict IN
          IF args[r].studio_id = None THEN
              /\ loc' = loc
              /\ pc' = [pc EXCEPT ![r] = "done"]
              /\ result' = [result EXCEPT ![r] = Raised("AttributeError")]
          ELSE IF pd_fleet_role_dict.has_statement /\ pd_fleet_role_dict.Statement # <<>> THEN
              IF InjectRaises(pd_fleet_role_dict.Statement) THEN
                  /\ loc' = [loc EXCEPT ![r].error_msg = "Couldn't set sts:AssumeRole condition"]
                  /\ Fail(r, "Couldn't set sts:AssumeRole condition")
              ELSE
                  /\ loc' = [loc EXCEPT ![r].pd_fleet_role_dict.Statement =
                                InjectConditions(pd_fleet_role_dict.Statement,
                                                 RegionOf(args[r].studio_id),
                                                 loc[r].account, loc[r].farm_id)]
                  /\ Goto(r, "get_role")
          ELSE
              /\ loc' = [loc EXCEPT ![r].error_msg = "Statement not found in fleet role dictionary"]
              /\ Fail(r, "Statement not found in fleet role dictionary")
    /\ UNCHANGED <<web, entry, args, progress, cleaned, calls, faulty, remote>>

\* "Check if fleet role already exists": an exception leaves role None.
GetRole(r) ==
    /\ pc[r] = "get_role"
    /\ \E out \in Outcomes("get_role", loc[r].role_name_fleet \in DOMAIN roles) :
          LET role == IF out = "raise" THEN None
                      ELSE get_role(Response(out, loc[r].role_name_fleet)) IN
          /\ Log(r, "get_role", loc[r].role_name_fleet, out)
          /\ loc' = [loc EXCEPT ![r].role = role]
          /\ IF Truthy(role) THEN Goto(r, "load_worker_permissions")
                             ELSE Goto(r, "create_role")
    /\ UNCHANGED <<web, entry, args, progress, cleaned, faulty, remote>>

\* The created role left out of the progress record.
RecordRoleSkipped(p, role_name) == p

\* progress["role_name"] = role_name_fleet, once create_role has returned.
RecordRole(p, role_name) == Put(p, "role_name", role_name)

CreateRole(r) ==
    /\ pc[r] = "create_role"
    /\ \E out \in Outcomes("create_role", loc[r].role_name_fleet \notin DOMAIN roles) :
          LET role == IF out = "raise" THEN None
                      ELSE create_role(Response(out, loc[r].role_name_fleet)) IN
          /\ Log(r, "create_role", loc[r].role_name_fleet, out)
          /\ roles' = IF out = "ok"
                      THEN (loc[r].role_name_fleet :>
                               [creator |-> r,
                                trust |-> loc[r].pd_fleet_role_dict.Statement]) @@ roles
                      ELSE roles
          /\ progress' = [progress EXCEPT ![r] =
                             IF out = "raise" THEN @
                             ELSE RecordRole(@, loc[r].role_name_fleet)]
          /\ loc' = [loc EXCEPT ![r].role = role,
                                ![r].error_msg = IF Truthy(role) THEN @
                                                 ELSE "Fleet role creation failed"]
          /\ IF Truthy(role) THEN Goto(r, "load_worker_permissions")
                             ELSE Fail(r, "Fleet role creation failed")
    /\ UNCHANGED <<web, entry, args, cleaned, faulty, farms, queues, fleets,
                   associations, role_policies>>

LoadWorkerPermissions(r) ==
    /\ pc[r] = "load_worker_permissions"
    /\ \E rd \in ReadOutcomes("read_iam_fleet_worker_permissions") :
          IF rd = "none"
          THEN /\ loc' = [loc EXCEPT ![r].error_msg = "Couldn't get WorkerPermissions policy document"]
               /\ Fail(r, "Couldn't get WorkerPermissions policy document")
          ELSE /\ loc' = loc
               /\ Goto(r, "put_role_policy")
    /\ UNCHANGED <<web, entry, args, progress, cleaned, calls, faulty, remote>>

\* progress["role_policy"] = {...}, once put_role_policy has returned.
RecordRolePolicy(p, role_name) ==
    Put(p, "role_policy", [role_name |-> role_name, policy_name |-> policy_name])

PutRolePolicy(r) ==
    /\ pc[r] = "put_role_policy"
    /\ \E out \in Outcomes("put_role_policy", loc[r].role_name_fleet \in DOMAIN roles) :
          LET role_policy == IF out = "raise" THEN None
                             ELSE put_role_policy(Response(out, 200)) IN
          /\ Log(r, "put_role_policy", loc[r].role_name_fleet, out)
          /\ role_policies' = IF out = "ok"
                              THEN role_policies \cup {<<loc[r].role_name_fleet, policy_name>>}
                              ELSE role_policies
          /\ progress' = [progress EXCEPT ![r] =
                             IF out = "raise" THEN @
                             ELSE RecordRolePolicy(@, loc[r].role_name_fleet)]
          /\ loc' = [loc EXCEPT ![r].error_msg = IF Truthy(role_policy) THEN @
                                                 ELSE "Fleet role creation failed"]
          /\ IF Truthy(role_policy) THEN Goto(r, "load_fleet_configuration")
                                    ELSE Fail(r, "Fleet role creation failed")
    /\ UNCHANGED <<web, entry, args, cleaned, faulty, farms, queues, fleets,
                   associations, roles>>

\* get_json_document(None) is None: no path, no configuration.
LoadFleetConfiguration(r) ==
    /\ pc[r] = "load_fleet_configuration"
    /\ \E rd \in ReadOutcomes("read_fleet_configuration") :
          IF rd = "none" \/ args[r].fleet_configuration_path = None
          THEN /\ loc' = [loc EXCEPT ![r].error_msg = "Couldn't get fleet configuration document"]
               /\ Fail(r, "Couldn't get fleet configuration document")
          ELSE /\ loc' = loc
               /\ Goto(r, "create_fleet")
    /\ UNCHANGED <<web, entry, args, progress, cleaned, calls, faulty, remote>>

\* One turn of the fleet loop: the wait, the call, and the test after the
\* loop when it ends.
CreateFleet(r) ==
    /\ pc[r] = "create_fleet"
    /\ loc[r].role_change_retries < role_change_retries_total
    /\ \E out \in Outcomes("create_fleet", /\ loc[r].farm_id \in farms
                                           /\ loc[r].role_name_fleet \in DOMAIN roles) :
          LET fleet_id == IF out = "raise" THEN None
                          ELSE create_fleet(Response(out, FleetIdOf(r)))
              retries == RetriesAfter(fleet_id, loc[r].role_change_retries)
              ended == Truthy(fleet_id) \/ ~(retries < role_change_retries_total)
          IN
          /\ calls' = [calls EXCEPT ![r] =
                          @ \o << [op |-> "sleep", target |-> None, out |-> "ok"],
                                  [op |-> "create_fleet", target |-> loc[r].farm_id,
                                   out |-> out] >>]
          /\ fleets' = IF out = "ok"
                       THEN fleets \cup {[fleet_id |-> fleet_id, farm_id |-> loc[r].farm_id,
                                          role_arn |-> loc[r].fleet_role_arn]}
                       ELSE fleets
          /\ loc' = [loc EXCEPT ![r].fleet_id = fleet_id,
                                ![r].role_change_retries = retries,
                                ![r].error_msg = IF ended /\ ~Truthy(fleet_id)
                                                 THEN "Fleet creation failed" ELSE @]
          /\ IF ~ended THEN Goto(r, "create_fleet")
             ELSE IF Truthy(fleet_id) THEN Goto(r, "create_queue_fleet_association")
             ELSE Fail(r, "Fleet creation failed")
    /\ UNCHANGED <<web, entry, args, progress, cleaned, faulty, farms, queues,
                   associations, roles, role_policies>>

\* The last step: on success the run returns progress.
CreateQueueFleetAssociation(r) ==
    /\ pc[r] = "create_queue_fleet_association"
    /\ \E out \in Outcomes("create_queue_fleet_association",
                           /\ loc[r].queue_id \in queues
                           /\ \E f \in fleets : f.fleet_id = loc[r].fleet_id) :
          LET associate_result == IF out = "raise" THEN None
                                  ELSE create_queue_fleet_association(Response(out, 200)) IN
          /\ Log(r, "create_queue_fleet_association", loc[r].fleet_id, out)
          /\ associations' = IF out = "ok"
                             THEN associations \cup
                                    {[farm_id |-> loc[r].farm_id, queue_id |-> loc[r].queue_id,
                                      fleet_id |-> loc[r].fleet_id]}
                             ELSE associations
          /\ IF Truthy(associate_result)
             THEN /\ loc' = loc
                  /\ pc' = [pc EXCEPT ![r] = "done"]
                  /\ result' = [result EXCEPT ![r] =
                                   [kind |-> "progress", value |-> progress[r]]]
             ELSE /\ loc' = [loc EXCEPT ![r].error_msg = "Fleet queue association failed"]
                  /\ Fail(r, "Fleet queue association failed")
    /\ UNCHANGED <<web, entry, args, progress, cleaned, faulty, farms, queues, fleets,
                   roles, role_policies>>

-----------------------------------------------------------------------------
(* clean_up *)

\* What the caller of clean_up does when it returns: create_farm_and_fleet
\* returns {"error": error_msg}, a direct caller gets the cleaned dictionary.
CleanUpReturn(r, c) ==
    /\ pc' = [pc EXCEPT ![r] = "done"]
    /\ result' = [result EXCEPT ![r] =
                     IF entry[r] = "create_farm_and_fleet"
                     THEN ErrorResult(loc[r].error_msg)
                     ELSE [kind |-> "cleaned", value |-> c]]

\* clean_up without its role_name branch.
ShouldDeleteNoRole(resources, key) == Has(resources, key) /\ key # "role_name"

\* if "<key>" in resources
ShouldDelete(resources, key) == Has(resources, key)

\* The call of clean_up itself, as the log shows it.
CleanUpCall == [op |-> "clean_up", target |-> None, out |-> "ok"]

\* Entry of clean_up; if "role_policy" in resources: delete_role_policy(...)
DeleteRolePolicy(r) ==
    /\ pc[r] = "cu_role_policy"
    /\ IF ShouldDelete(progress[r], "role_policy") THEN
           LET rp == progress[r]["role_policy"] IN
           \E out \in Outcomes("delete_role_policy",
                               <<rp.role_name, rp.policy_name>> \in role_policies) :
              /\ calls' = [calls EXCEPT ![r] =
                              @ \o <<CleanUpCall,
                                     [op |-> "delete_role_policy", target |-> rp.role_name,
                                      out |-> out]>>]
              /\ role_policies' = IF out = "ok"
                                  THEN role_policies \ {<<rp.role_name, rp.policy_name>>}
                                  ELSE role_policies
              /\ cleaned' = [cleaned EXCEPT ![r] =
                                IF out = "raise" THEN @
                                ELSE Put(@, "delete_role_policy",
                                         delete_role_policy(Response(out, 200)))]
       ELSE /\ calls' = [calls EXCEPT ![r] = Append(@, CleanUpCall)]
            /\ UNCHANGED <<role_policies, cleaned>>
    /\ Goto(r, "cu_role_name")
    /\ UNCHANGED <<web, entry, args, loc, progress, faulty, farms, queues, fleets,
                   associations, roles>>

\* if "role_name" in resources: delete_role(...). IAM refuses to delete a
\* role that still has an inline policy.
DeleteRole(r) ==
    /\ pc[r] = "cu_role_name"
    /\ IF ShouldDelete(progress[r], "role_name") THEN
           LET role_name == progress[r]["role_name"] IN
           \E out \in Outcomes("delete_role",
                               /\ role_name \in DOMAIN roles
                               /\ ~\E rp \in role_policies : rp[1] = role_name) :
              /\ Log(r, "delete_role", role_name, out)
              /\ roles' = IF out = "ok"
                          THEN [n \in DOMAIN roles \ {role_name} |-> roles[n]]
                          ELSE roles
              /\ cleaned' = [cleaned EXCEPT ![r] =
                                IF out = "raise" THEN @
                                ELSE Put(@, "role_name", delete_role(Response(out, 200)))]
       ELSE UNCHANGED <<calls, roles, cleaned>>
    /\ Goto(r, "cu_queue_id")
    /\ UNCHANGED <<web, entry, args, loc, progress, faulty, farms, queues, fleets,
                   associations, role_policies>>

\* if "queue_id" in resources: delete_queue(farm_id=resources["farm_id"], ...).
\* Without the key "farm_id" the arguments raise KeyError inside the try.
DeleteQueue(r) ==
    /\ pc[r] = "cu_queue_id"
    /\ IF ShouldDelete(progress[r], "queue_id") /\ Has(progress[r], "farm_id") THEN
           LET queue_id == progress[r]["queue_id"] IN
           \E out \in Outcomes("delete_queue", queue_id \in queues) :
              /\ Log(r, "delete_queue", queue_id, out)
              /\ queues' = IF out = "ok" THEN queues \ {queue_id} ELSE queues
              /\ cleaned' = [cleaned EXCEPT ![r] =
                                IF out = "raise" THEN @
                                ELSE Put(@, "delete_queue", delete_queue(Response(out, 200)))]
       ELSE UNCHANGED <<calls, queues, cleaned>>
    /\ Goto(r, "cu_farm_id")
    /\ UNCHANGED <<web, entry, args, loc, progress, faulty, farms, fleets,
                   associations, roles, role_policies>>

\* if "farm_id" in resources: delete_farm(...); return cleaned.
DeleteFarm(r) ==
    /\ pc[r] = "cu_farm_id"
    /\ IF ShouldDelete(progress[r], "farm_id") THEN
           LET farm_id == progress[r]["farm_id"] IN
           \E out \in Outcomes("delete_farm", farm_id \in farms) :
              LET c == IF out = "raise" THEN cleaned[r]
                       ELSE Put(cleaned[r], "delete_farm", delete_farm(Response(out, 200)))
              IN
              /\ Log(r, "delete_farm", farm_id, out)
              /\ farms' = IF out = "ok" THEN farms \ {farm_id} ELSE farms
              /\ cleaned' = [cleaned EXCEPT ![r] = c]
              /\ CleanUpReturn(r, c)
       ELSE /\ UNCHANGED <<calls, farms, cleaned>>
            /\ CleanUpReturn(r, cleaned[r])
    /\ UNCHANGED <<web, entry, args, loc, progress, faulty, queues, fleets,
                   associations, roles, role_policies>>

-----------------------------------------------------------------------------
(* Specifications *)

\* The role of the derived name as an earlier run for the same farm name
\* left it: its trust policy is scoped to that run's farm.
OldRole ==
    [creator |-> 0,
     trust |-> InjectConditions(GoodTemplate.Statement, RegionOf(StudioId),
                                Account, OldFarmId)]

\* Arguments of a call of create_farm_and_fleet (command line or listener).
ArgChoices ==
    [name_farm : {None, NameAB}, name_queue : {None, NameAB \o <<" Queue">>},
     name_fleet : {None, NameAB \o <<" Fleet">>}, studio_id : {None, StudioId},
     fleet_configuration_path : {FLEET_CONFIGURATION_PATH}]

InitCommon ==
    /\ loc = [r \in Runs |-> InitLoc]
    /\ cleaned = [r \in Runs |-> EmptyDict]
    /\ calls = [r \in Runs |-> <<>>]
    /\ result = [r \in Runs |-> NoResult]
    /\ http_response = [r \in Runs |-> NoResponse]
    /\ fleets = {}
    /\ associations = {}

\* One run of create_farm_and_fleet, any response of the environment; a role
\* of the derived name may exist already.
Init ==
    /\ InitCommon
    /\ argv = [r \in Runs |-> NoArgv]
    /\ request = [r \in Runs |-> NoRequest]
    /\ pc = [r \in Runs |-> IF r = 1 THEN "validate" ELSE "idle"]
    /\ entry = [r \in Runs |-> IF r = 1 THEN "create_farm_and_fleet" ELSE "none"]
    /\ \E a \in ArgChoices : args = [r \in Runs |-> IF r = 1 THEN a ELSE NoArgs]
    /\ progress = [r \in Runs |-> EmptyDict]
    /\ faulty = AllOps
    /\ farms = {OldFarmId}
    /\ queues = {}
    /\ roles \in {<<>>, (RoleNameFleet(NameAB) :> OldRole)}
    /\ role_policies = {<<n, policy_name>> : n \in DOMAIN roles}

Step(r) ==
    \/ Validate(r)
    \/ GetCallerIdentity(r)
    \/ CreateFarm(r)
    \/ CreateQueue(r)
    \/ GetQueue(r)
    \/ LoadFleetRole(r)
    \/ UpdateFleetRole(r)
    \/ GetRole(r)
    \/ CreateRole(r)
    \/ LoadWorkerPermissions(r)
    \/ PutRolePolicy(r)
    \/ LoadFleetConfiguration(r)
    \/ CreateFleet(r)
    \/ CreateQueueFleetAssociation(r)
    \/ DeleteRolePolicy(r)
    \/ DeleteRole(r)
    \/ DeleteQueue(r)
    \/ DeleteFarm(r)

Next == \E r \in Runs : Step(r)

Spec == Init /\ [][Next]_vars

\* The same run in a process that keeps executing: the code is sequential
\* and every wrapper call returns or raises, so a step that is possible is
\* taken.
SpecFair == Spec /\ WF_vars(Next)

\* The names with " Queue" and " Fleet" swapped.
ListenerArgsSwapped(project_name) ==
    [name_farm |-> project_name, name_queue |-> project_name \o <<" Fleet">>,
     name_fleet |-> project_name \o <<" Queue">>, studio_id |-> StudioId,
     fleet_configuration_path |-> FLEET_CONFIGURATION_PATH]

\* Two webhook requests at once, for the projects "A B" and "A_B" or for the
\* same project twice; IAM starts without the fleet role, and the only
\* failure is the one the fleet loop is there for (create_fleet).
ListenerArgs(project_name) ==
    [name_farm |-> project_name, name_queue |-> project_name \o <<" Queue">>,
     name_fleet |-> project_name \o <<" Fleet">>, studio_id |-> StudioId,
     fleet_configuration_path |-> FLEET_CONFIGURATION_PATH]

InitTwo ==
    /\ InitCommon
    /\ argv = [r \in Runs |-> NoArgv]
    /\ request = [r \in Runs |-> NoRequest]
    /\ pc = [r \in Runs |-> "validate"]
    /\ entry = [r \in Runs |-> "create_farm_and_fleet"]
    /\ \E n \in {NameAB, NameA_B} :
          args = [r \in Runs |-> IF r = 1 THEN ListenerArgs(NameAB) ELSE ListenerArgs(n)]
    /\ progress = [r \in Runs |-> EmptyDict]
    /\ faulty = {"create_fleet"}
    /\ farms = {}
    /\ queues = {}
    /\ roles = <<>>
    /\ role_policies = {}

SpecTwo == InitTwo /\ [][Next]_vars

\* clean_up called on its own with any dictionary over its four keys, the
\* resources the dictionary names being there.
CleanUpKeys == {"role_policy", "role_name", "queue_id", "farm_id"}

ResourceValue(k) ==
    CASE k = "role_policy" ->
             [role_name |-> RoleNameFleet(NameAB), policy_name |-> policy_name]
      [] k = "role_name" -> RoleNameFleet(NameAB)
      [] k = "queue_id" -> QueueIdOf(1)
      [] k = "farm_id" -> FarmIdOf(1)

InitCleanUp ==
    /\ InitCommon
    /\ argv = [r \in Runs |-> NoArgv]
    /\ request = [r \in Runs |-> NoRequest]
    /\ pc = [r \in Runs |-> IF r = 1 THEN CleanUpStart ELSE "idle"]
    /\ entry = [r \in Runs |-> IF r = 1 THEN "clean_up" ELSE "none"]
    /\ args = [r \in Runs |-> NoArgs]
    /\ \E keys \in SUBSET CleanUpKeys :
          progress = [r \in Runs |-> IF r = 1 THEN [k \in keys |-> ResourceValue(k)]
                                     ELSE EmptyDict]
    /\ faulty = AllOps
    /\ farms = {FarmIdOf(1)}
    /\ queues = {QueueIdOf(1)}
    /\ roles = (RoleNameFleet(NameAB) :> [OldRole EXCEPT !.creator = 1])
    /\ role_policies = {<<RoleNameFleet(NameAB), policy_name>>}

NextCleanUp ==
    \E r \in Runs : DeleteRolePolicy(r) \/ DeleteRole(r) \/ DeleteQueue(r) \/ DeleteFarm(r)

SpecCleanUp == InitCleanUp /\ [][NextCleanUp]_vars

\* The wrappers of deadline_cloud_util called on their own, each with any
\* response of the client: MaxCalls calls in a row, the last one's return
\* value (or exception) kept in result.
MaxCalls == 2

\* The value of the expected field of a response, per wrapper.
ResponseValues(op) ==
    IF op \in StatusOps THEN {200, 404}
    ELSE IF op = "get_caller_identity" THEN {<<"UserId", Account>>}
    ELSE IF op \in {"create_role", "get_role"} THEN {RoleNameFleet(NameAB)}
    ELSE IF op = "create_farm" THEN {FarmIdOf(1)}
    ELSE IF op = "create_fleet" THEN {FleetIdOf(1)}
    ELSE {QueueIdOf(1)}

CallWrapper(r) ==
    /\ pc[r] = "wrapper"
    /\ Len(calls[r]) < MaxCalls
    /\ \E op \in WrapperOps, out \in {"ok", "nofield", "raise"} :
       \E value \in ResponseValues(op) :
       \E argument \in IF op = "get_queue" THEN {QueueIdOf(1)} ELSE {None} :
          /\ Log(r, op, argument, out)
          /\ result' = [result EXCEPT ![r] =
                IF out = "raise" THEN Raised("ClientError")
                ELSE [kind |-> "returned",
                      value |-> WrapperResult(op, Response(out, value), argument)]]
    /\ UNCHANGED <<web, pc, entry, args, loc, progress, cleaned, faulty, remote>>

InitWrappers ==
    /\ InitCommon
    /\ argv = [r \in Runs |-> NoArgv]
    /\ request = [r \in Runs |-> NoRequest]
    /\ pc = [r \in Runs |-> IF r = 1 THEN "wrapper" ELSE "idle"]
    /\ entry = [r \in Runs |-> IF r = 1 THEN "deadline_cloud_util" ELSE "none"]
    /\ args = [r \in Runs |-> NoArgs]
    /\ progress = [r \in Runs |-> EmptyDict]
    /\ faulty = AllOps
    /\ farms = {}
    /\ queues = {}
    /\ roles = <<>>
    /\ role_policies = {}

NextWrappers == \E r \in Runs : CallWrapper(r)

SpecWrappers == InitWrappers /\ [][NextWrappers]_vars

-----------------------------------------------------------------------------
(* listener.py: _parse_url *)

\* A URL is a sequence of tokens: the characters "?", "&", "=", "#", ".",
\* the percent escapes, and words that hold none of these.

\* urllib.parse.unquote
Unquote(s) ==
    [i \in DOMAIN s |-> CASE s[i] = "%3D" -> "="
                          [] s[i] = "%3F" -> "?"
                          [] s[i] = "%20" -> " "
                          [] OTHER -> s[i]]

\* c in s
Contains(s, c) == \E i \in DOMAIN s : s[i] = c
FirstIndex(s, c) == CHOOSE i \in DOMAIN s : s[i] = c /\ \A j \in 1..(i - 1) : s[j] # c
\* s.split(c, 1)[0] and, for an s that holds c, s.split(c, 1)[1]
Before(s, c) == IF Contains(s, c) THEN SubSeq(s, 1, FirstIndex(s, c) - 1) ELSE s
After(s, c) == SubSeq(s, FirstIndex(s, c) + 1, Len(s))

\* s.split(c)
RECURSIVE Split(_, _)
Split(s, c) ==
    IF Contains(s, c) THEN <<Before(s, c)>> \o Split(After(s, c), c) ELSE <<s>>

\* urllib.parse.urlsplit(url).query: what stands between the first "?" and
\* the fragment.
UrlQuery(url) ==
    LET no_fragment == Before(url, "#") IN
    IF Contains(no_fragment, "?") THEN After(no_fragment, "?") ELSE <<>>

\* urlsplit(url).query.split("?")[-1].split("&")
ParamsRaw(url) ==
    LET parts == Split(UrlQuery(url), "?") IN Split(parts[Len(parts)], "&")

ListKeys == {<<"column_display_names">>, <<"cols">>}
\* params = {"column_display_names": [], "cols": []}
EmptyParams == (<<"column_display_names">> :> <<>>) @@ (<<"cols">> :> <<>>)

\* The loop over params_raw; key, value = ... raises ValueError for a piece
\* without "=".
RECURSIVE ParseParams(_, _)
ParseParams(params_raw, params) ==
    IF params_raw = <<>> THEN [raised |-> FALSE, params |-> params]
    ELSE LET param == Head(params_raw) IN
         IF ~Contains(param, "=") THEN [raised |-> TRUE, params |-> params]
         ELSE LET key == Unquote(Before(param, "="))
                  value == Unquote(After(param, "="))
              IN ParseParams(Tail(params_raw),
                             IF key \in ListKeys
                             THEN Put(params, key, Append(params[key], value))
                             ELSE Put(params, key, value))

parse_url(url) ==
    IF ~Contains(url, "?") THEN Raised("ValueError")
    ELSE LET p == ParseParams(ParamsRaw(url), EmptyParams) IN
         IF p.raised THEN Raised("ValueError")
         ELSE [kind |-> "returned", value |-> p.params]

\* _parse_url called on its own, on the URL of the request.
ParseUrl(r) ==
    /\ pc[r] = "_parse_url"
    /\ result' = [result EXCEPT ![r] = parse_url(request[r].url)]
    /\ pc' = [pc EXCEPT ![r] = "done"]
    /\ UNCHANGED <<argv, request, http_response, entry, args, loc, progress, cleaned,
                   calls, faulty, remote>>

\* URLs: the route alone, or the route, "?" and up to MaxPairs pieces joined
\* by "&"; a piece is key=value (the value may hold "=", "?" or an escape) or
\* a key alone; some end in a fragment.
MaxPairs == 2
UrlBase == <<"http://listener/farm_creator">>
RawPairs ==
    {k \o <<"=">> \o v : k \in {<<"cols">>, <<"k">>},
                         v \in {<<"v">>, <<"w">>, <<"v", "=", "w">>,
                                <<"v", "%3D", "w">>, <<"v", "?", "w">>}}
        \cup {<<"k">>}

RECURSIVE Join(_)
Join(pieces) ==
    IF pieces = <<>> THEN <<>>
    ELSE IF Len(pieces) = 1 THEN pieces[1]
    ELSE pieces[1] \o <<"&">> \o Join(Tail(pieces))

ParseUrls ==
    {UrlBase}
      \cup {UrlBase \o <<"?">> \o Join(ps) :
               ps \in UNION {[1..n -> RawPairs] : n \in 0..MaxPairs}}
      \cup {UrlBase \o <<"?">> \o p \o <<"#", "top">> : p \in RawPairs}

InitParse ==
    /\ InitCommon
    /\ argv = [r \in Runs |-> NoArgv]
    /\ \E u \in ParseUrls :
          request = [r \in Runs |-> IF r = 1
                                   THEN [method |-> "GET", url |-> u, form |-> <<>>]
                                   ELSE NoRequest]
    /\ pc = [r \in Runs |-> IF r = 1 THEN "_parse_url" ELSE "idle"]
    /\ entry = [r \in Runs |-> IF r = 1 THEN "_parse_url" ELSE "none"]
    /\ args = [r \in Runs |-> NoArgs]
    /\ progress = [r \in Runs |-> EmptyDict]
    /\ faulty = {}
    /\ farms = {}
    /\ queues = {}
    /\ roles = <<>>
    /\ role_policies = {}

NextParse == \E r \in Runs : ParseUrl(r)

SpecParse == InitParse /\ [][NextParse]_vars

-----------------------------------------------------------------------------
(* listener.py: farm_creator *)

\* The loaded settings document.
settings == [studio_id |-> StudioId]

Text(value) == [kind |-> "text", value |-> value]
\* redirect(farm_url)
Redirect(region_id, farm_id) ==
    [kind |-> "redirect",
     value |-> <<"https://", region_id, ".console.aws.amazon.com/deadlinecloud/home?region=",
                 region_id, "#/farms/">> \o farm_id]

\* params: request.form.to_dict() for POST, _parse_url(request.url) for GET.
RequestParams(req) ==
    IF req.method = "POST" THEN [kind |-> "returned", value |-> req.form]
    ELSE parse_url(req.url)

\* What farm_creator returns before it gets to the workflow; NoResponse when
\* it goes on to call create_farm_and_fleet.
EarlyResponse(req) ==
    LET parsed == RequestParams(req) IN
    IF parsed.kind = "raised" THEN Text(<<"Traceback", parsed.value>>)
    ELSE IF DOMAIN parsed.value = {}
    THEN Text(<<"Error: No parameters could be parsed.">>)
    ELSE IF ~Has(parsed.value, <<"project_name">>)
    THEN Text(<<"Error: Please run this Action Menu Item from the Project Actions menu of a Project page.">>)
    ELSE IF ~Has(parsed.value, <<"server_hostname">>)
    THEN Text(<<"Traceback", "KeyError">>)
    ELSE NoResponse

\* Every outcome of the workflow answered with a redirect.
HandlerResponseRedirects(farm_result) ==
    Redirect(RegionOf(settings.studio_id), <<"farm", 0>>)

\* What farm_creator returns for the workflow's result or exception.
HandlerResponse(farm_result) ==
    IF farm_result.kind = "raised" THEN Text(<<"Traceback", farm_result.value>>)
    ELSE IF farm_result.kind = "none"
    THEN Text(<<"Error: No result was returned by the farm creator. Please check the farm creator logs for more information.">>)
    ELSE IF farm_result.kind = "error" THEN Text(<<"Error: ", farm_result.value>>)
    ELSE IF Has(farm_result.value, "farm_id")
    THEN Redirect(RegionOf(settings.studio_id), farm_result.value["farm_id"])
    ELSE Text(<<"Traceback", "KeyError">>)

\* farm_creator up to the call of create_farm_and_fleet.
ReceiveRequest(r) ==
    /\ pc[r] = "farm_creator"
    /\ IF EarlyResponse(request[r]) # NoResponse
       THEN /\ http_response' = [http_response EXCEPT ![r] = EarlyResponse(request[r])]
            /\ pc' = [pc EXCEPT ![r] = "responded"]
            /\ args' = args
       ELSE /\ args' = [args EXCEPT ![r] =
                           ListenerArgs(RequestParams(request[r]).value[<<"project_name">>])]
            /\ pc' = [pc EXCEPT ![r] = "validate"]
            /\ http_response' = http_response
    /\ UNCHANGED <<argv, request, entry, loc, progress, cleaned, calls, result, faulty, remote>>

\* farm_creator after create_farm_and_fleet has returned or raised.
Respond(r) ==
    /\ pc[r] = "done"
    /\ entry[r] = "farm_creator"
    /\ http_response' = [http_response EXCEPT ![r] = HandlerResponse(result[r])]
    /\ pc' = [pc EXCEPT ![r] = "responded"]
    /\ UNCHANGED <<argv, request, entry, args, loc, progress, cleaned, calls, result,
                   faulty, remote>>

\* Requests: GET with or without parameters, POST with or without fields;
\* the projects "A B" and "C".
HostName == <<"sg", ".", "example">>
Query(project_name) ==
    <<"project_name", "=">> \o project_name \o <<"&", "server_hostname", "=">> \o HostName
Form(project_name) ==
    (<<"project_name">> :> project_name) @@ (<<"server_hostname">> :> HostName)

WebRequests ==
    {[method |-> "GET", url |-> u, form |-> <<>>] :
        u \in {UrlBase,
               UrlBase \o <<"?">> \o Query(<<"A", "%20", "B">>),
               UrlBase \o <<"?">> \o Query(<<"C">>) \o <<"&", "cols", "=", "code">>,
               UrlBase \o <<"?", "server_hostname", "=">> \o HostName,
               UrlBase \o <<"?", "project_name", "=", "C">>}}
      \cup {[method |-> "POST", url |-> UrlBase, form |-> f] :
               f \in {<<>>, Form(NameAB), Form(<<"C">>),
                      (<<"server_hostname">> :> HostName),
                      (<<"project_name">> :> NameAB)}}

\* One webhook request; queue polling and fleet creation may fail.
InitWeb ==
    /\ InitCommon
    /\ argv = [r \in Runs |-> NoArgv]
    /\ \E req \in WebRequests :
          request = [r \in Runs |-> IF r = 1 THEN req ELSE NoRequest]
    /\ pc = [r \in Runs |-> IF r = 1 THEN "farm_creator" ELSE "idle"]
    /\ entry = [r \in Runs |-> IF r = 1 THEN "farm_creator" ELSE "none"]
    /\ args = [r \in Runs |-> NoArgs]
    /\ progress = [r \in Runs |-> EmptyDict]
    /\ faulty = {"get_queue", "create_fleet"}
    /\ farms = {}
    /\ queues = {}
    /\ roles = <<>>
    /\ role_policies = {}

NextWeb == \E r \in Runs : ReceiveRequest(r) \/ Step(r) \/ Respond(r)

SpecWeb == InitWeb /\ [][NextWeb]_vars

-----------------------------------------------------------------------------
(* creator.py: the command line *)

\* fleet_configuration_path as handed to create_farm_and_fleet: it starts
\* as None and is set, to the built-in path, only when the command line
\* gave none.
FleetConfigurationPathOf(given) ==
    IF ~Truthy(given) THEN FLEET_CONFIGURATION_PATH ELSE None

\* The script's body: the parsed arguments become the call of
\* create_farm_and_fleet.
Main(r) ==
    /\ pc[r] = "__main__"
    /\ args' = [args EXCEPT ![r] =
                   [name_farm |-> argv[r].farm, name_queue |-> argv[r].queue,
                    name_fleet |-> argv[r].fleet, studio_id |-> argv[r].studio_id,
                    fleet_configuration_path |->
                        FleetConfigurationPathOf(argv[r].fleet_configuration_path)]]
    /\ pc' = [pc EXCEPT ![r] = "validate"]
    /\ UNCHANGED <<argv, request, http_response, entry, loc, progress, cleaned,
                   calls, result, faulty, remote>>

\* Command lines: every flag given or left out, -fcp with a path of the
\* user's own.
OwnPath == <<"my/fleet.json">>
CommandLines ==
    [studio_id : {None, StudioId}, farm : {None, NameAB},
     queue : {None, NameAB \o <<" Queue">>}, fleet : {None, NameAB \o <<" Fleet">>},
     fleet_configuration_path : {None, OwnPath}]

\* One start of the script; queue polling and fleet creation may fail.
InitMain ==
    /\ InitCommon
    /\ \E a \in CommandLines : argv = [r \in Runs |-> IF r = 1 THEN a ELSE NoArgv]
    /\ request = [r \in Runs |-> NoRequest]
    /\ pc = [r \in Runs |-> IF r = 1 THEN "__main__" ELSE "idle"]
    /\ entry = [r \in Runs |-> IF r = 1 THEN "__main__" ELSE "none"]
    /\ args = [r \in Runs |-> NoArgs]
    /\ progress = [r \in Runs |-> EmptyDict]
    /\ faulty = {"get_queue", "create_fleet"}
    /\ farms = {}
    /\ queues = {}
    /\ roles = <<>>
    /\ role_policies = {}

NextMain == \E r \in Runs : Main(r) \/ Step(r)

SpecMain == InitMain /\ [][NextMain]_vars

-----------------------------------------------------------------------------
(* Reading the log of a run *)

CreationOps == <<"create_farm", "create_queue", "create_role", "put_role_policy",
                 "create_fleet", "create_queue_fleet_association">>
DeleteOps == {"delete_role_policy", "delete_role", "delete_queue", "delete_farm"}

IsDelete(e) == e.op \in DeleteOps

\* The calls of one operation, and the deletions, in the order issued.
CallsOf(r, op) == SelectSeq(calls[r], LAMBDA e : e.op = op)
Deletions(r) ==
    LET d == SelectSeq(calls[r], IsDelete) IN [i \in DOMAIN d |-> <<d[i].op, d[i].target>>]
DeletedOps(r) ==
    LET d == SelectSeq(calls[r], IsDelete) IN [i \in DOMAIN d |-> d[i].op]

Issued(r, op) == \E i \in DOMAIN calls[r] : calls[r][i].op = op
Returned(r, op, out) ==
    \E i \in DOMAIN calls[r] : calls[r][i].op = op /\ calls[r][i].out = out
CleanUpInvoked(r) == Issued(r, "clean_up")

Done(r) == pc[r] = "done"
Succeeded(r) == Done(r) /\ result[r].kind = "progress"
ReturnedError(r) == Done(r) /\ result[r].kind = "error"

-----------------------------------------------------------------------------
(* Queue polling *)

\* Every get_queue attempt of the run failed and the loop has run out.
PollingExhausted(r) ==
    /\ Done(r)
    /\ Len(CallsOf(r, "get_queue")) = queue_retries_total
    /\ ~Returned(r, "get_queue", "ok")
    /\ ~Returned(r, "get_queue", "nofield")

\* C1: when the queue cannot be read in 3 get_queue attempts the workflow
\* invokes clean_up and returns an error result; get_queue is called at most
\* 3 times and no attempt follows a successful one.
C1_PollingFailureCleansUp ==
    \A r \in Runs :
        /\ Len(CallsOf(r, "get_queue")) <= queue_retries_total
        /\ \A i \in DOMAIN CallsOf(r, "get_queue") :
               CallsOf(r, "get_queue")[i].out # "raise"
                   => i = Len(CallsOf(r, "get_queue"))
        /\ PollingExhausted(r) => (CleanUpInvoked(r) /\ ReturnedError(r))

\* C2: a run given a studio id ends by returning a dictionary, the progress
\* record with farm_id or an error dictionary, whatever the remote calls do;
\* nothing escapes as an exception.
C2_AlwaysReturnsDict ==
    \A r \in Runs :
        (Done(r) /\ args[r].studio_id # None) =>
            \/ result[r].kind = "error"
            \/ result[r].kind = "progress" /\ Has(result[r].value, "farm_id")

-----------------------------------------------------------------------------
(* Clean-up after a failed fleet or queue creation *)

\* create_fleet failed on every attempt.
FleetExhausted(r) ==
    /\ Done(r)
    /\ Len(CallsOf(r, "create_fleet")) = role_change_retries_total
    /\ ~Returned(r, "create_fleet", "ok")

AllFourDeletions(r) ==
    << <<"delete_role_policy", loc[r].role_name_fleet>>,
       <<"delete_role", loc[r].role_name_fleet>>,
       <<"delete_queue", loc[r].queue_id>>,
       <<"delete_farm", loc[r].farm_id>> >>

\* C3 as stated: after create_fleet failed on all attempts clean_up issues
\* exactly delete_role_policy, delete_role, delete_queue, delete_farm, in
\* this order.
C3_Original ==
    \A r \in Runs : FleetExhausted(r) => Deletions(r) = AllFourDeletions(r)

\* C3 as amended: after create_fleet failed on all attempts clean_up issues
\* delete_role_policy, delete_role, delete_queue, delete_farm in this order,
\* delete_role being issued exactly when the run itself called create_role
\* (no role of the derived name was found).
C3_FleetFailureDeletions ==
    \A r \in Runs :
        FleetExhausted(r) =>
            Deletions(r) =
                IF Issued(r, "create_role") THEN AllFourDeletions(r)
                ELSE << AllFourDeletions(r)[1], AllFourDeletions(r)[3],
                        AllFourDeletions(r)[4] >>

\* The fleet loop ran out in a run that found the role, and in one that
\* created it.
C3_Witness ==
    \E r \in Runs : FleetExhausted(r) /\ ~Issued(r, "create_role")

QueueCreationFailed(r) ==
    /\ Done(r)
    /\ Returned(r, "create_farm", "ok")
    /\ Issued(r, "create_queue")
    /\ ~Returned(r, "create_queue", "ok")

\* C4: when create_farm succeeded and create_queue failed, clean_up issues
\* delete_farm for the created farm and no other deletion, and the run
\* returns an error result.
C4_QueueFailureDeletesFarmOnly ==
    \A r \in Runs :
        QueueCreationFailed(r) =>
            /\ Deletions(r) = << <<"delete_farm", FarmIdOf(r)>> >>
            /\ CleanUpInvoked(r)
            /\ ReturnedError(r)

C4_Witness == \E r \in Runs : QueueCreationFailed(r) /\ Returned(r, "create_queue", "raise")

-----------------------------------------------------------------------------
(* Validation *)

NameMissing(r) ==
    \/ args[r].name_farm = None
    \/ args[r].name_queue = None
    \/ args[r].name_fleet = None

\* C5: with a farm, queue or fleet name missing the run returns a validation
\* error, raises nothing and issues no call at all.
C5_MissingNameNoRemoteCall ==
    \A r \in Runs :
        (entry[r] = "create_farm_and_fleet" /\ NameMissing(r)) =>
            /\ calls[r] = <<>>
            /\ pc[r] \in {"validate", "done"}
            /\ Done(r) => (ReturnedError(r) /\ result[r].value = ValidationError(args[r]))

C5_Witness ==
    \E r \in Runs : Done(r) /\ args[r].name_farm # None /\ args[r].name_fleet = None

-----------------------------------------------------------------------------
(* The fleet role *)

\* A Condition that admits only the given account and farm.
ConditionScopes(c, account, farm_id) ==
    /\ DOMAIN c = {"StringEquals", "ArnEquals"}
    /\ c.StringEquals.SourceAccount = account
    /\ c.ArnEquals.SourceArn =
           <<"arn", "aws", "deadline", "us-west-2">> \o account \o <<"farm">> \o farm_id

\* A trust policy whose sts:AssumeRole statements all carry that Condition.
TrustScoped(trust, account, farm_id) ==
    /\ \E i \in DOMAIN trust : trust[i].Action = AssumeRoleAction
    /\ \A i \in DOMAIN trust :
           trust[i].Action = AssumeRoleAction
               => ConditionScopes(trust[i].Condition, account, farm_id)

\* C6: after a successful run the role whose ARN the created fleet was given
\* has a trust policy restricted to the caller's account and to the farm the
\* run created.
C6_FleetRoleScopedToFarm ==
    \A r \in Runs :
        Succeeded(r) =>
            \E f \in fleets :
                /\ f.fleet_id = loc[r].fleet_id
                /\ f.role_arn = FleetRoleArn(Account, loc[r].role_name_fleet)
                /\ loc[r].role_name_fleet \in DOMAIN roles
                /\ TrustScoped(roles[loc[r].role_name_fleet].trust, Account, FarmIdOf(r))

\* C7: two runs at once do not touch each other's resources: the role a
\* successful run gave its fleet is one the run created itself, and it still
\* exists with its WorkerPermissions policy; no run deletes a policy from,
\* or deletes, a role another run created.
C7_RunsIndependent ==
    \A r \in Runs :
        /\ Succeeded(r) =>
               /\ loc[r].role_name_fleet \in DOMAIN roles
               /\ roles[loc[r].role_name_fleet].creator = r
               /\ <<loc[r].role_name_fleet, policy_name>> \in role_policies
        /\ \A i \in DOMAIN calls[r] :
               (calls[r][i].op \in {"delete_role_policy", "delete_role"}
                    /\ calls[r][i].target \in DOMAIN roles)
                   => roles[calls[r][i].target].creator = r

\* C8: once get_role has returned a role the run issues no create_role, and
\* goes on to the WorkerPermissions policy: the call after get_role is
\* put_role_policy (or clean_up, when the policy document cannot be read).
C8_ExistingRoleNotCreated ==
    \A r \in Runs :
        Returned(r, "get_role", "ok") =>
            /\ ~Issued(r, "create_role")
            /\ pc[r] \notin {"get_role", "create_role"}
            /\ \A i \in DOMAIN calls[r] :
                   calls[r][i].op = "get_role" =>
                       IF i = Len(calls[r])
                       THEN pc[r] \in {"load_worker_permissions", "put_role_policy",
                                       CleanUpStart}
                       ELSE calls[r][i + 1].op \in {"put_role_policy", "clean_up"}

\* A run that found the role and got as far as the association.
C8_Witness ==
    \E r \in Runs : Returned(r, "get_role", "ok") /\ Succeeded(r)

\* The creation step k of the log's first i entries has succeeded; the role
\* step has also succeeded when get_role found the role.
StepSucceeded(r, k, i) ==
    \E j \in 1..(i - 1) :
        /\ calls[r][j].out = "ok"
        /\ \/ calls[r][j].op = CreationOps[k]
           \/ k = 3 /\ calls[r][j].op = "get_role"

\* C9: creation calls are issued in the order farm, queue, role, policy,
\* fleet, association, each only after every earlier creation step has
\* succeeded, and none after clean_up has started.
C9_CreationOrder ==
    \A r \in Runs :
        \A i \in DOMAIN calls[r] :
            \A k \in DOMAIN CreationOps :
                calls[r][i].op = CreationOps[k] =>
                    /\ \A k2 \in 1..(k - 1) : StepSucceeded(r, k2, i)
                    /\ \A j \in 1..(i - 1) : calls[r][j].op # "clean_up"

\* A run that issued the association call after a failed fleet attempt.
C9_Witness ==
    \E r \in Runs :
        /\ Issued(r, "create_queue_fleet_association")
        /\ Returned(r, "create_fleet", "raise")
        /\ Issued(r, "create_role")

-----------------------------------------------------------------------------
(* clean_up on its own *)

DeleteOpOf(key) ==
    CASE key = "role_policy" -> "delete_role_policy"
      [] key = "role_name" -> "delete_role"
      [] key = "queue_id" -> "delete_queue"
      [] key = "farm_id" -> "delete_farm"

CleanUpOrder == <<"role_policy", "role_name", "queue_id", "farm_id">>

\* The deletions of the keys for which present(key) holds, in clean_up's order.
DeletionsFor(present(_)) ==
    LET keys == SelectSeq(CleanUpOrder, present)
    IN  [i \in DOMAIN keys |-> DeleteOpOf(keys[i])]

-----------------------------------------------------------------------------
(* Fleet creation retries *)

\* The positions of the run's create_fleet calls in its log.
FleetAttempts(r) == {i \in DOMAIN calls[r] : calls[r][i].op = "create_fleet"}

\* C11: fleet creation is attempted at most role_change_retries_total (3)
\* times, a wait comes immediately before every attempt (the first included),
\* no attempt follows one that returned a fleet id, and a run whose three
\* attempts all raised or returned no fleet id has invoked clean_up and
\* returned an error record.
C11_FleetRetry ==
    \A r \in Runs :
        /\ Cardinality(FleetAttempts(r)) <= role_change_retries_total
        /\ \A i \in FleetAttempts(r) : i > 1 /\ calls[r][i - 1].op = "sleep"
        /\ Len(CallsOf(r, "sleep")) = Cardinality(FleetAttempts(r))
        /\ \A i, j \in FleetAttempts(r) : calls[r][i].out = "ok" => j <= i
        /\ FleetExhausted(r) => CleanUpInvoked(r) /\ ReturnedError(r)

\* A run that used up its three attempts, one raising and one returning no
\* fleet id.
C11_Witness ==
    /\ FleetExhausted(1)
    /\ Returned(1, "create_fleet", "raise")
    /\ Returned(1, "create_fleet", "nofield")

-----------------------------------------------------------------------------
(* The wrappers' return contract *)

LastCall(r) == calls[r][Len(calls[r])]

\* C12: whatever wrapper was called last, an exception of the underlying
\* call left the wrapper as an exception after that one call, a response
\* without the expected field made it return None (get_queue included), and a
\* response with the field made it return the identifier or a boolean.
C12_WrapperContract ==
    \A r \in Runs :
        calls[r] # <<>> =>
            LET e == LastCall(r) IN
            /\ e.out = "raise" => result[r] = Raised("ClientError")
            /\ e.out = "nofield" => result[r].kind = "returned" /\ result[r].value = None
            /\ e.out = "ok" =>
                   /\ result[r].kind = "returned"
                   /\ IF e.op \in StatusOps THEN result[r].value \in {True, False}
                      ELSE result[r].value \in ResponseValues(e.op)

-----------------------------------------------------------------------------
(* Trust-policy injection *)

\* The Condition the claim names, for the region of StudioId.
ExpectedCondition(account, farm_id) ==
    [StringEquals |-> [SourceAccount |-> account],
     ArnEquals |-> [SourceArn |-> <<"arn", "aws", "deadline", "us-west-2">>
                                     \o account \o <<"farm">> \o farm_id]]

\* What one update of the template read by run r did, for a run that was
\* given a studio id (the region of the ARN is taken from it).
InjectionStep(r) ==
    LET before == loc[r].pd_fleet_role_dict
        after == loc'[r].pd_fleet_role_dict
    IN
    IF ~before.has_statement \/ before.Statement = <<>> THEN
        /\ pc'[r] = CleanUpStart
        /\ loc'[r].error_msg = "Statement not found in fleet role dictionary"
        /\ after = before
    ELSE
        pc'[r] = "get_role" =>
            /\ DOMAIN after.Statement = DOMAIN before.Statement
            /\ \A i \in DOMAIN before.Statement :
                   IF before.Statement[i].Action = AssumeRoleAction
                   THEN /\ after.Statement[i].Action = AssumeRoleAction
                        /\ after.Statement[i].Condition =
                               ExpectedCondition(Account, FarmIdOf(r))
                   ELSE after.Statement[i] = before.Statement[i]

\* C13: the update of the trust-policy template gives every statement whose
\* Action is "sts:AssumeRole" the Condition {StringEquals: aws:SourceAccount =
\* account, ArnEquals: aws:SourceArn = arn:aws:deadline:region:account:farm/
\* farm_id} and leaves every other statement as it was; a template without
\* "Statement", or with an empty one, sends the run to clean_up, and the run
\* then returns the error record.
C13_InjectionScoped ==
    /\ [][\A r \in Runs :
            (pc[r] = "update_fleet_role" /\ pc'[r] # pc[r] /\ args[r].studio_id # None)
                => InjectionStep(r)]_vars
    /\ [](\A r \in Runs :
            (Done(r) /\ loc[r].error_msg = "Statement not found in fleet role dictionary")
                => CleanUpInvoked(r) /\ ReturnedError(r))

\* The template's sts:AssumeRole statement carries the Condition and the run
\* goes on to the role lookup.
C13_Witness ==
    /\ pc[1] = "get_role"
    /\ loc[1].pd_fleet_role_dict.Statement[1].Action = AssumeRoleAction
    /\ loc[1].pd_fleet_role_dict.Statement[1].Condition = ExpectedCondition(Account, FarmIdOf(1))

-----------------------------------------------------------------------------
(* Caller identity *)

\* The caller-identity call of run r raised, returned None, or returned an
\* identity without "Account".
IdentityFailed(r) ==
    /\ Issued(r, "get_caller_identity")
    /\ ~Returned(r, "get_caller_identity", "ok")

\* C14: when the caller identity cannot be resolved the run returns the
\* error record at once: get_caller_identity is the only call it ever made
\* (no creation, lookup or deletion, no clean_up), nothing is recorded in
\* progress and the remote state is as the run found it.
C14_IdentityFailureStops ==
    \A r \in Runs :
        IdentityFailed(r) =>
            /\ ReturnedError(r)
            /\ result[r].value = "Get caller identity failed"
            /\ Len(calls[r]) = 1
            /\ ~CleanUpInvoked(r)
            /\ progress[r] = EmptyDict
            /\ cleaned[r] = EmptyDict
            /\ farms = {OldFarmId} /\ queues = {} /\ fleets = {}

\* A run that got an identity without "Account".
C14_Witness ==
    /\ Returned(1, "get_caller_identity", "noaccount")
    /\ Done(1)

-----------------------------------------------------------------------------
(* _parse_url *)

\* The dictionary the claim describes for the pieces key=value of a URL.
ExpectedParams(pieces) ==
    LET keyOf(i) == Unquote(Before(pieces[i], "="))
        valueOf(i) == Unquote(After(pieces[i], "="))
        indexes(k) == SelectSeq([i \in DOMAIN pieces |-> i], LAMBDA i : keyOf(i) = k)
    IN
    [k \in ListKeys \cup {keyOf(i) : i \in DOMAIN pieces} |->
        IF k \in ListKeys
        THEN [j \in DOMAIN indexes(k) |-> valueOf(indexes(k)[j])]
        ELSE valueOf(indexes(k)[Len(indexes(k))])]

\* The text after the first "?" is a sequence of pieces that each hold "=".
KeyValuePairs(url) ==
    /\ Contains(url, "?")
    /\ ~Contains(url, "#")
    /\ \A piece \in {Split(After(url, "?"), "&")[i] :
                        i \in DOMAIN Split(After(url, "?"), "&")} : Contains(piece, "=")

\* C17: _parse_url raises for a URL without "?"; for a URL whose text after
\* the "?" is a sequence of key=value pairs it returns the dictionary that
\* splits every pair at its first "=", holds under column_display_names and
\* cols the lists of all their values in order (empty when absent) and under
\* any other key the value of its last pair.
C17_ParseUrl ==
    \A r \in Runs :
        (entry[r] = "_parse_url" /\ Done(r)) =>
            LET url == request[r].url IN
            /\ ~Contains(url, "?") => result[r] = Raised("ValueError")
            /\ KeyValuePairs(url) =>
                   /\ result[r].kind = "returned"
                   /\ result[r].value = ExpectedParams(Split(After(url, "?"), "&"))

\* The same for pairs that hold no "?" of their own.
C17_WithoutQuestionMark ==
    \A r \in Runs :
        (entry[r] = "_parse_url" /\ Done(r)) =>
            LET url == request[r].url IN
            /\ ~Contains(url, "?") => result[r] = Raised("ValueError")
            /\ (KeyValuePairs(url) /\ ~Contains(After(url, "?"), "?")) =>
                   /\ result[r].kind = "returned"
                   /\ result[r].value = ExpectedParams(Split(After(url, "?"), "&"))

-----------------------------------------------------------------------------
(* The webhook handler *)

\* The pieces of a GET request's query, and whether a request carries a
\* parameter, read off the request itself.
QueryPieces(req) ==
    IF Contains(req.url, "?") THEN Split(After(req.url, "?"), "&") ELSE <<>>
Carries(req, name) ==
    IF req.method = "POST" THEN <<name>> \in DOMAIN req.form
    ELSE \E i \in DOMAIN QueryPieces(req) :
            /\ Contains(QueryPieces(req)[i], "=")
            /\ Before(QueryPieces(req)[i], "=") = <<name>>
ProjectNameOf(req) ==
    IF req.method = "POST" THEN req.form[<<"project_name">>]
    ELSE LET i == CHOOSE i \in DOMAIN QueryPieces(req) :
                     Before(QueryPieces(req)[i], "=") = <<"project_name">>
         IN Unquote(After(QueryPieces(req)[i], "="))

Invoked(r) == args[r] # NoArgs \/ calls[r] # <<>> \/ result[r] # NoResult
Responded(r) == pc[r] = "responded"

-----------------------------------------------------------------------------
(* What a failed run leaves behind *)

\* Every deletion the run issued came back successful.
DeletionsSucceeded(r) ==
    \A i \in DOMAIN calls[r] : IsDelete(calls[r][i]) => calls[r][i].out = "ok"

\* None of the resources run r created is there any more.
NothingLeft(r) ==
    /\ FarmIdOf(r) \notin farms
    /\ QueueIdOf(r) \notin queues
    /\ \A f \in fleets : f.fleet_id # FleetIdOf(r)
    /\ \A name \in DOMAIN roles : roles[name].creator # r
    /\ Returned(r, "put_role_policy", "ok")
           => <<loc[r].role_name_fleet, policy_name>> \notin role_policies

\* C18: when a run has returned an error after a clean_up all of whose
\* deletions succeeded, nothing it created remains: not its farm, its queue,
\* its fleet, a role it created, or the inline policy it put.
C18_FailedRunLeavesNothing ==
    \A r \in Runs :
        (ReturnedError(r) /\ CleanUpInvoked(r) /\ DeletionsSucceeded(r)) => NothingLeft(r)

\* C19: when the role of the derived name was there before the run (the
\* run's get_role found it), a run that fails leaves that role and its inline
\* policy "WorkerPermissions" in place.
C19_ExistingRoleUntouched ==
    \A r \in Runs :
        (Returned(r, "get_role", "ok") /\ Done(r) /\ ~Succeeded(r)) =>
            /\ loc[r].role_name_fleet \in DOMAIN roles
            /\ roles[loc[r].role_name_fleet] = OldRole
            /\ <<loc[r].role_name_fleet, policy_name>> \in role_policies

-----------------------------------------------------------------------------
(* Termination *)

\* The calls a run makes once, whatever the remote answers.
SingleOps == {"get_caller_identity", "create_farm", "create_queue", "get_role",
              "create_role", "put_role_policy", "create_queue_fleet_association"}

CallBounds(r) ==
    /\ Len(CallsOf(r, "get_queue")) <= queue_retries_total
    /\ Len(CallsOf(r, "create_fleet")) <= role_change_retries_total
    /\ \A op \in SingleOps \cup {"clean_up"} : Len(CallsOf(r, op)) <= 1
    /\ \A i, j \in DOMAIN calls[r] :
           (calls[r][i].op = "clean_up" /\ i < j) => IsDelete(calls[r][j])

\* C20: every run comes to an end whatever the remote services answer, and
\* on the way it calls get_queue at most 3 times, create_fleet at most 3
\* times, every other creation or lookup at most once and clean_up at most
\* once, with nothing but clean_up's deletions after clean_up has begun.
C20_Terminates ==
    /\ [](\A r \in Runs : CallBounds(r))
    /\ <>(\A r \in Runs : pc[r] \in {"done", "idle"})

\* A finished run that used up both loops' last turn: three get_queue calls
\* and three create_fleet calls, then clean_up.
C20_Witness ==
    /\ Done(1)
    /\ Len(CallsOf(1, "get_queue")) = queue_retries_total
    /\ Len(CallsOf(1, "create_fleet")) = role_change_retries_total
    /\ CleanUpInvoked(1)

-----------------------------------------------------------------------------
(* The fleet configuration path of the command line *)

\* C21: once the script has called create_farm_and_fleet, the workflow's
\* fleet_configuration_path is the path given on the command line, and the
\* built-in FLEET_CONFIGURATION_PATH only when none was given.
C21_PathFromCommandLine ==
    \A r \in Runs :
        (entry[r] = "__main__" /\ pc[r] # "__main__") =>
            args[r].fleet_configuration_path =
                IF argv[r].fleet_configuration_path # None
                THEN argv[r].fleet_configuration_path
                ELSE <<"configuration/cmf_default.json">>

\* The half of it that holds: without -fcp the built-in path is used.
C21_DefaultWhenNoneGiven ==
    \A r \in Runs :
        (entry[r] = "__main__" /\ pc[r] # "__main__"
            /\ argv[r].fleet_configuration_path = None) =>
            args[r].fleet_configuration_path = <<"configuration/cmf_default.json">>

====
